---- MODULE Spec2Model ----
(***************************************************************************)
(* The inertial unit device of the Webots controller library               *)
(* (src/lib/Controller/api/inertial_unit.c) as a state machine.            *)
(*                                                                         *)
(* Two flows share the device record: the client flow, which calls the     *)
(* public functions wb_inertial_unit_* / wbr_inertial_unit_set_values and  *)
(* reads through the pointers they return, and the synchronization flow,   *)
(* which runs the callbacks installed by wb_inertial_unit_init             *)
(* (write_request, read_answer, toggle_remote) while it holds the step     *)
(* lock.  Each function is split at the points where the other flow can    *)
(* run: lock acquisition, the body, lock release, and every single store   *)
(* or load that is made without the lock.                                  *)
(***************************************************************************)
EXTENDS Integers, Sequences, FiniteSets, TLC

\* ------------------------------------------------------------------ bounds

\* Largest small period a client requests; Periods also holds one rejected
\* (negative) period and one period that does not fit 16 bits.
MaxPeriod == 1

\* Largest table size a Configure message announces; TableSizes also holds
\* one negative size.
MaxTable == 1

\* ------------------------------------------------------- program constants

\* NULL pointer (lookup_table = NULL at creation, result of a failed lookup).
NULL == 0
\* Address of the device's rpy array, as returned by get_roll_pitch_yaw.
RPY == 1
\* Code point standing for the NAN double.
NAN == -1
\* Number of values request_write_uint16 can carry: 2^16.
UINT16_RANGE == 65536

C_SET_SAMPLING_PERIOD == "C_SET_SAMPLING_PERIOD"
C_INERTIAL_UNIT_DATA == "C_INERTIAL_UNIT_DATA"
C_CONFIGURE == "C_CONFIGURE"

\* ------------------------------------------------------------------ inputs

\* The tag of the one inertial unit of the robot.
DeviceTag == 1
\* Tags a client passes: 0 is no device at all, 1 the inertial unit.
Tags == {0, DeviceTag}

\* Periods a client passes to wb_inertial_unit_enable.
Periods == {-1} \cup (0 .. MaxPeriod) \cup {UINT16_RANGE + MaxPeriod}

\* Vectors a Data message or wbr_inertial_unit_set_values carries.
DataVectors == { <<1, 2, 3>>, <<4, 5, 6>> }
SetVectors == { <<7, 8, 9>> }
NanVector == <<NAN, NAN, NAN>>

\* Tag bytes of an answer that are neither of the two read_answer knows.
OtherTags == { "C_OTHER" }

\* Table sizes a Configure message announces (request_read_int32).
TableSizes == -1 .. MaxTable

\* The 3 * n doubles that follow the size in a Configure message, all
\* different so that their order shows; none for n <= 0.
TableValues(n) ==
  IF n <= 0 THEN { << >> }
  ELSE { [i \in 1 .. 3 * n |-> base + i] : base \in {10, 20} }

\* Addresses malloc can return for a lookup table.
TableAddrs == {2, 3}

\* ------------------------------------------------------------------- state

VARIABLES
  dev,      \* the InertialUnit record (d->pdata)
  lock,     \* holder of the step lock: "free", "client" or "sync"
  cpc,      \* where the client flow is
  cop,      \* the call the client flow is in: function, tag, arguments
  cres,     \* what the last call returned and reported
  cread,    \* components the client has loaded through the rpy pointer
  spc,      \* where the synchronization flow is
  r,        \* the request of the current round (commands written so far)
  msg,      \* the payload read_answer is decoding
  heap,     \* the allocator: the device's blocks that are allocated
  hist      \* history: what the claims need to remember about past calls

vars == <<dev, lock, cpc, cop, cres, cread, spc, r, msg, heap, hist>>

\* Mutant of inertial_unit_create: rpy is left as calloc would leave it.
inertial_unit_create_zeroed ==
  [ enable            |-> FALSE,
    sampling_period   |-> 0,
    rpy               |-> <<0, 0, 0>>,
    lookup_table      |-> NULL,
    lookup_table_size |-> 0 ]

\* inertial_unit_create
inertial_unit_create ==
  [ enable            |-> FALSE,
    sampling_period   |-> 0,
    rpy               |-> NanVector,
    lookup_table      |-> NULL,
    lookup_table_size |-> 0 ]

\* inertial_unit_get_struct: the device's record for the inertial unit's
\* tag, NULL for any other tag.
inertial_unit_get_struct(t) == IF t = DeviceTag THEN DeviceTag ELSE NULL

\* The implicit conversion of the int sampling_period to the unsigned short
\* parameter of request_write_uint16.
ToUint16(x) == x % UINT16_RANGE

NoCall == [ fn |-> "none", tag |-> 0, period |-> 0, values |-> NanVector ]
NoResult == [ int |-> 0, ptr |-> NULL, err |-> "none" ]

\* The allocator at creation: the InertialUnit itself is allocated, no table.
NoBlocks ==
  [ pdata |-> TRUE,                           \* the InertialUnit is allocated
    live  |-> {},                             \* the tables that are allocated
    data  |-> [a \in TableAddrs |-> << >>],    \* the doubles stored in each
    bad   |-> FALSE ]                         \* free() was given a dead block

\* malloc for a table: the block at address a becomes allocated, and holds
\* nothing the program has stored yet.
malloc(h, a) == [h EXCEPT !.live = @ \cup {a}, !.data[a] = << >>]

\* free(p): nothing for NULL, the block is released if it is allocated,
\* and anything else is a double free.
free(h, p) ==
  IF p = NULL THEN h
  ELSE IF p \in h.live THEN [h EXCEPT !.live = @ \ {p}, !.data[p] = << >>]
  ELSE [h EXCEPT !.bad = TRUE]

NoHist ==
  [ lastFn     |-> "none",  \* the last enable/disable call that succeeded
    lastPeriod |-> 0,       \* the period it asked for (0 for disable)
    between    |-> FALSE,   \* it ran between a round's request and answer
    pending    |-> 0,       \* such calls since the last command: 0, 1, 2 = several
    toggled    |-> FALSE,   \* toggle_remote ran since the last flush
    flushed    |-> "none",  \* why the last flush sent a command, or "nothing"
    sent       |-> 0,       \* the period of the last command written, 0 if none
    cfg        |-> [seen |-> FALSE, n |-> 0, values |-> << >>]
                            \* the last Configure message decoded to its end
  ]

Init ==
  /\ dev = inertial_unit_create
  /\ lock = "free"
  /\ cpc = "idle"
  /\ cop = NoCall
  /\ cres = NoResult
  /\ cread = << >>
  /\ spc = "idle"
  /\ r = << >>
  /\ msg = NanVector
  /\ heap = NoBlocks
  /\ hist = NoHist

\* --------------------------------------------------- effects on the record

\* Mutant of enable_store: the command is armed only when the period changes.
enable_store_if_changed(d, p) ==
  [d EXCEPT !.enable = (d.enable \/ p # d.sampling_period), !.sampling_period = p]

\* wb_inertial_unit_enable, the two stores made for a resolved device.
enable_store(d, p) == [d EXCEPT !.enable = TRUE, !.sampling_period = p]

\* Mutant of write_request_command: a period of 0 is not worth a command.
write_request_command_skips_zero(d) ==
  IF d.enable /\ d.sampling_period # 0
    THEN << [cmd |-> C_SET_SAMPLING_PERIOD, period |-> ToUint16(d.sampling_period)] >>
    ELSE << >>

\* inertial_unit_write_request, what it appends to the request.
write_request_command(d) ==
  IF d.enable
    THEN << [cmd |-> C_SET_SAMPLING_PERIOD, period |-> ToUint16(d.sampling_period)] >>
    ELSE << >>

\* Mutant of write_request_store: the flush also clears the period it sent.
write_request_store_clears_period(d) ==
  IF d.enable THEN [d EXCEPT !.enable = FALSE, !.sampling_period = 0] ELSE d

\* Mutant of write_request_store: the flag is left as it was.
write_request_store_keeps_enable(d) == d

\* inertial_unit_write_request, what it leaves in the record.
write_request_store(d) == IF d.enable THEN [d EXCEPT !.enable = FALSE] ELSE d

\* inertial_unit_toggle_remote, what it leaves in the record.
toggle_remote_store(d) ==
  IF d.sampling_period # 0 THEN [d EXCEPT !.enable = TRUE] ELSE d

\* One store to rpy[i - 1] (the model's sequences start at 1).
rpy_store(d, i, v) == [d EXCEPT !.rpy[i] = v]

\* ------------------------------------------------------------- client flow

\* A call begins: the previous call's result and loads are forgotten.  cop
\* holds the call while it runs and is NoCall again once it has returned.
Begin(fn, tag, p, v, returns) ==
  /\ cop' = IF returns THEN NoCall
            ELSE [ fn |-> fn, tag |-> tag, period |-> p, values |-> v ]
  /\ cread' = << >>

\* robot_mutex_lock_step in a public function: blocks until the lock is free.
LockStep ==
  /\ lock = "free"
  /\ lock' = "client"
  /\ cpc' = "locked"
  /\ cres' = NoResult

\* Mutant of enable_enter: the check of the period's sign is missing.
enable_enter_unchecked(fn, tag, p) ==
  /\ Begin(fn, tag, p, NanVector, FALSE)
  /\ LockStep
  /\ UNCHANGED <<dev, spc, r, msg, heap, hist>>

\* wb_inertial_unit_enable up to and including robot_mutex_lock_step: a
\* negative period is reported and the function returns at once.
enable_enter(fn, tag, p) ==
  /\ Begin(fn, tag, p, NanVector, p < 0)
  /\ IF p < 0
       THEN /\ cres' = [NoResult EXCEPT !.err = "negative"]
            /\ cpc' = "idle"
            /\ UNCHANGED lock
       ELSE LockStep
  /\ UNCHANGED <<dev, spc, r, msg, heap, hist>>

wb_inertial_unit_enable(tag, p) ==
  /\ cpc = "idle"
  /\ enable_enter("enable", tag, p)

\* Mutant of wb_inertial_unit_enable_body: the result of the lookup is not
\* checked, the stores go to the robot's inertial unit whatever the tag.
wb_inertial_unit_enable_body_unchecked ==
  /\ cpc = "locked"
  /\ cop.fn \in {"enable", "disable"}
  /\ dev' = enable_store(dev, cop.period)
  /\ hist' = IF cop.tag = DeviceTag
               THEN [hist EXCEPT !.lastFn = cop.fn,
                                 !.lastPeriod = IF cop.fn = "disable" THEN 0
                                                ELSE cop.period,
                                 !.between = (spc = "await"),
                                 !.pending = IF hist.pending = 0 THEN 1 ELSE 2]
               ELSE hist
  /\ cpc' = "unlock"
  /\ UNCHANGED <<lock, cop, cres, cread, spc, r, msg, heap>>

\* wb_inertial_unit_enable between lock and unlock.
wb_inertial_unit_enable_body ==
  /\ cpc = "locked"
  /\ cop.fn \in {"enable", "disable"}
  /\ IF inertial_unit_get_struct(cop.tag) # NULL
       THEN /\ dev' = enable_store(dev, cop.period)
            /\ hist' = [hist EXCEPT !.lastFn = cop.fn,
                                    !.lastPeriod = IF cop.fn = "disable" THEN 0
                                                   ELSE cop.period,
                                    !.between = (spc = "await"),
                                    !.pending = IF hist.pending = 0 THEN 1 ELSE 2]
            /\ UNCHANGED cres
       ELSE /\ cres' = [cres EXCEPT !.err = "invalid tag"]
            /\ UNCHANGED <<dev, hist>>
  /\ cpc' = "unlock"
  /\ UNCHANGED <<lock, cop, cread, spc, r, msg, heap>>

\* wb_inertial_unit_disable: the device is looked up without the lock, then
\* wb_inertial_unit_enable(tag, 0) is called.
wb_inertial_unit_disable(tag) ==
  /\ cpc = "idle"
  /\ Begin("disable", tag, 0, NanVector, inertial_unit_get_struct(tag) = NULL)
  /\ IF inertial_unit_get_struct(tag) # NULL
       THEN /\ cpc' = "disable_resolved"
            /\ cres' = NoResult
       ELSE /\ cpc' = "idle"
            /\ cres' = [NoResult EXCEPT !.err = "invalid tag"]
  /\ UNCHANGED <<dev, lock, spc, r, msg, heap, hist>>

\* Mutant of wb_inertial_unit_disable_call_enable: the device's current
\* period is passed on instead of 0.
wb_inertial_unit_disable_call_enable_keeps_period ==
  /\ cpc = "disable_resolved"
  /\ enable_enter("disable", cop.tag, dev.sampling_period)

\* wb_inertial_unit_disable, the call wb_inertial_unit_enable(tag, 0).
wb_inertial_unit_disable_call_enable ==
  /\ cpc = "disable_resolved"
  /\ enable_enter("disable", cop.tag, 0)

\* The getters: lock, look the device up, read one field, unlock.
Getters ==
  { "get_sampling_period", "get_roll_pitch_yaw",
    "get_lookup_table_size", "get_lookup_table" }

GetterCall(fn, tag) ==
  /\ cpc = "idle"
  /\ Begin(fn, tag, 0, NanVector, FALSE)
  /\ LockStep
  /\ UNCHANGED <<dev, spc, r, msg, heap, hist>>

wb_inertial_unit_get_sampling_period(tag) == GetterCall("get_sampling_period", tag)
wb_inertial_unit_get_roll_pitch_yaw(tag) == GetterCall("get_roll_pitch_yaw", tag)
wb_inertial_unit_get_lookup_table_size(tag) == GetterCall("get_lookup_table_size", tag)
wb_inertial_unit_get_lookup_table(tag) == GetterCall("get_lookup_table", tag)

\* Mutant of GetterBody: on an unknown tag the function returns at once,
\* without robot_mutex_unlock_step.
GetterBody_returns_locked(fn, result) ==
  /\ cpc = "locked"
  /\ cop.fn = fn
  /\ IF inertial_unit_get_struct(cop.tag) # NULL
       THEN cres' = result /\ cpc' = "unlock" /\ cop' = cop
       ELSE cres' = [NoResult EXCEPT !.err = "invalid tag"] /\ cpc' = "idle"
            /\ cop' = NoCall
  /\ UNCHANGED <<dev, lock, cread, spc, r, msg, heap, hist>>

\* A getter between lock and unlock: the lookup, the read of one field or
\* the error message.
GetterBody(fn, result) ==
  /\ cpc = "locked"
  /\ cop.fn = fn
  /\ cres' = IF inertial_unit_get_struct(cop.tag) # NULL
               THEN result
               ELSE [NoResult EXCEPT !.err = "invalid tag"]
  /\ cpc' = "unlock"
  /\ UNCHANGED <<dev, lock, cop, cread, spc, r, msg, heap, hist>>

get_sampling_period_result(d) == [NoResult EXCEPT !.int = d.sampling_period]

wb_inertial_unit_get_sampling_period_body ==
  GetterBody("get_sampling_period", get_sampling_period_result(dev))

wb_inertial_unit_get_roll_pitch_yaw_body ==
  GetterBody("get_roll_pitch_yaw",
             [NoResult EXCEPT !.ptr = RPY,
                              !.err = IF dev.sampling_period <= 0
                                        THEN "disabled device" ELSE "none"])

wb_inertial_unit_get_lookup_table_size_body ==
  GetterBody("get_lookup_table_size", [NoResult EXCEPT !.int = dev.lookup_table_size])

wb_inertial_unit_get_lookup_table_body ==
  GetterBody("get_lookup_table", [NoResult EXCEPT !.ptr = dev.lookup_table])

\* robot_mutex_unlock_step and the return of a public function.
UnlockStep ==
  /\ cpc = "unlock"
  /\ lock' = "free"
  /\ cpc' = "idle"
  /\ cop' = NoCall
  /\ UNCHANGED <<dev, cres, cread, spc, r, msg, heap, hist>>

\* The client loads the three doubles behind the pointer that
\* wb_inertial_unit_get_roll_pitch_yaw returned, one load at a time.
ClientLoad ==
  /\ cres.ptr = RPY
  /\ \/ cpc = "idle" /\ cread' = << dev.rpy[1] >> /\ cpc' = "load1"
     \/ cpc = "load1" /\ cread' = Append(cread, dev.rpy[2]) /\ cpc' = "load2"
     \/ cpc = "load2" /\ cread' = Append(cread, dev.rpy[3]) /\ cpc' = "idle"
  /\ UNCHANGED <<dev, lock, cop, cres, spc, r, msg, heap, hist>>

\* wbr_inertial_unit_set_values: lookup and first store, no lock taken.
wbr_inertial_unit_set_values(tag, v) ==
  /\ cpc = "idle"
  /\ Begin("set_values", tag, 0, v, inertial_unit_get_struct(tag) = NULL)
  /\ IF inertial_unit_get_struct(tag) # NULL
       THEN /\ dev' = rpy_store(dev, 1, v[1])
            /\ cpc' = "store1"
            /\ cres' = NoResult
       ELSE /\ cpc' = "idle"
            /\ cres' = [NoResult EXCEPT !.err = "invalid tag"]
            /\ UNCHANGED dev
  /\ UNCHANGED <<lock, spc, r, msg, heap, hist>>

\* wbr_inertial_unit_set_values: the stores to rpy[1] and rpy[2].
wbr_inertial_unit_set_values_store ==
  /\ \/ /\ cpc = "store1"
        /\ dev' = rpy_store(dev, 2, cop.values[2])
        /\ cpc' = "store2"
        /\ cop' = cop
     \/ /\ cpc = "store2"
        /\ dev' = rpy_store(dev, 3, cop.values[3])
        /\ cpc' = "idle"
        /\ cop' = NoCall
  /\ UNCHANGED <<lock, cres, cread, spc, r, msg, heap, hist>>

\* ---------------------------------------------------- synchronization flow

\* A round begins: the step loop takes the lock and starts a new request.
SyncBegin ==
  /\ spc = "idle"
  /\ lock = "free"
  /\ lock' = "sync"
  /\ spc' = "write"
  /\ UNCHANGED <<dev, cpc, cop, cres, cread, r, msg, heap, hist>>

\* inertial_unit_write_request
inertial_unit_write_request ==
  /\ spc = "write"
  /\ r' = r \o write_request_command(dev)
  /\ dev' = write_request_store(dev)
  /\ hist' = [hist EXCEPT !.pending = IF r' # r THEN 0 ELSE hist.pending,
                          !.toggled = FALSE,
                          !.flushed = IF r' = r THEN "nothing"
                                      ELSE IF hist.pending = 2 THEN "coalesced"
                                      ELSE IF hist.pending = 1 THEN "call"
                                      ELSE "toggle",
                          !.sent = IF r' # r THEN r'[Len(r')].period ELSE hist.sent]
  /\ spc' = "sent"
  /\ UNCHANGED <<lock, cpc, cop, cres, cread, msg, heap>>

\* The request leaves with the first thing the step loop does after
\* write_request; what is remembered about it is forgotten with it.
RequestSent ==
  IF spc = "sent"
    THEN /\ r' = << >>
         /\ hist' = [hist EXCEPT !.flushed = "none", !.between = FALSE]
    ELSE UNCHANGED <<r, hist>>

\* Between sending the request and reading the answer the step loop may
\* release the lock (wb_robot_step_begin / wb_robot_step_end) ...
SyncYield ==
  /\ spc = "sent"
  /\ lock' = "free"
  /\ spc' = "await"
  /\ RequestSent
  /\ UNCHANGED <<dev, cpc, cop, cres, cread, msg, heap>>

\* ... and takes it again before the answer is decoded.
SyncResume ==
  /\ spc = "await"
  /\ lock = "free"
  /\ lock' = "sync"
  /\ spc' = "read"
  /\ UNCHANGED <<dev, cpc, cop, cres, cread, r, msg, heap, hist>>

\* inertial_unit_read_answer, case C_INERTIAL_UNIT_DATA: the tag is read and
\* rpy[0] stored.
inertial_unit_read_answer_data(v) ==
  /\ spc \in {"sent", "read"}
  /\ msg' = v
  /\ dev' = rpy_store(dev, 1, v[1])
  /\ spc' = "data1"
  /\ RequestSent
  /\ UNCHANGED <<lock, cpc, cop, cres, cread, heap>>

\* inertial_unit_read_answer, case C_INERTIAL_UNIT_DATA: rpy[1] and rpy[2].
inertial_unit_read_answer_data_store ==
  /\ \/ spc = "data1" /\ dev' = rpy_store(dev, 2, msg[2]) /\ spc' = "data2" /\ msg' = msg
     \/ spc = "data2" /\ dev' = rpy_store(dev, 3, msg[3]) /\ spc' = "read" /\ msg' = NanVector
  /\ UNCHANGED <<lock, cpc, cop, cres, cread, r, heap, hist>>

\* The round ends: the step loop releases the lock.
SyncEnd ==
  /\ spc \in {"sent", "read"}
  /\ lock' = "free"
  /\ spc' = "idle"
  /\ RequestSent
  /\ UNCHANGED <<dev, cpc, cop, cres, cread, msg, heap>>

\* inertial_unit_toggle_remote, called by the robot when the remote control
\* mode changes, with the lock held: either inside a round or on its own.
inertial_unit_toggle_remote ==
  /\ \/ spc = "idle" /\ lock = "free"
     \/ spc \in {"write", "sent", "read"}
  /\ dev' = toggle_remote_store(dev)
  /\ hist' = [hist EXCEPT !.toggled = TRUE]
  /\ UNCHANGED <<lock, cpc, cop, cres, cread, spc, r, msg, heap>>

\* Mutant of configure_store: the pointer to the freed table is kept.
configure_store_keeps_pointer(d, n) == [d EXCEPT !.lookup_table_size = n]

\* inertial_unit_read_answer, case C_CONFIGURE, up to the test of the size:
\* the size is read and stored, the old table freed and forgotten.
configure_store(d, n) == [d EXCEPT !.lookup_table_size = n, !.lookup_table = NULL]

inertial_unit_read_answer_configure(n, values) ==
  /\ spc \in {"sent", "read"}
  /\ dev' = configure_store(dev, n)
  /\ heap' = free(heap, dev.lookup_table)
  /\ r' = << >>
  /\ LET h == IF spc = "sent"
                THEN [hist EXCEPT !.flushed = "none", !.between = FALSE]
                ELSE hist
     IN IF dev'.lookup_table_size > 0
          THEN /\ spc' = "configure"
               /\ msg' = values
               /\ hist' = h
          ELSE /\ spc' = "read"
               /\ msg' = NanVector
               /\ hist' = [h EXCEPT !.cfg = [seen |-> TRUE, n |-> n,
                                             values |-> << >>]]
  /\ UNCHANGED <<lock, cpc, cop, cres, cread>>

\* inertial_unit_read_answer, case C_CONFIGURE: the malloc of the new table.
inertial_unit_read_answer_configure_malloc ==
  /\ spc = "configure"
  /\ \E a \in TableAddrs \ heap.live :
       /\ heap' = malloc(heap, a)
       /\ dev' = [dev EXCEPT !.lookup_table = a]
  /\ spc' = "fill"
  /\ UNCHANGED <<lock, cpc, cop, cres, cread, r, msg, hist>>

\* Mutant of configure_count: the loop stops after one double per row.
configure_count_rows(d) == d.lookup_table_size

\* The number of doubles the loop reads: lookup_table_size * 3.
configure_count(d) == d.lookup_table_size * 3

\* The double the loop stores into lookup_table[i - 1].
configure_value(m, i) == m[i]

\* inertial_unit_read_answer, case C_CONFIGURE: one turn of the loop that
\* reads the doubles, or its end once i reaches lookup_table_size * 3.
inertial_unit_read_answer_configure_fill ==
  /\ spc = "fill"
  /\ LET a == dev.lookup_table
         i == Len(heap.data[a]) + 1
     IN IF i <= configure_count(dev)
          THEN /\ heap' = [heap EXCEPT !.data[a] = Append(@, configure_value(msg, i))]
               /\ UNCHANGED <<spc, msg, hist>>
          ELSE /\ spc' = "read"
               /\ msg' = NanVector
               /\ hist' = [hist EXCEPT !.cfg = [seen |-> TRUE,
                                                n |-> dev.lookup_table_size,
                                                values |-> msg]]
               /\ UNCHANGED heap
  /\ UNCHANGED <<dev, lock, cpc, cop, cres, cread, r>>

\* ROBOT_ASSERT(0): the session is over, nothing runs in it any more.
ROBOT_ASSERT_failed == "fatal"

\* Mutant of inertial_unit_read_answer_default: the message is skipped.
inertial_unit_read_answer_default_ignored(tag) ==
  /\ spc \in {"sent", "read"}
  /\ tag \notin {C_INERTIAL_UNIT_DATA, C_CONFIGURE}
  /\ spc' = "read"
  /\ RequestSent
  /\ UNCHANGED <<dev, lock, cpc, cop, cres, cread, msg, heap>>

\* inertial_unit_read_answer, default case.
inertial_unit_read_answer_default(tag) ==
  /\ spc \in {"sent", "read"}
  /\ tag \notin {C_INERTIAL_UNIT_DATA, C_CONFIGURE}
  /\ spc' = ROBOT_ASSERT_failed
  /\ RequestSent
  /\ UNCHANGED <<dev, lock, cpc, cop, cres, cread, msg, heap>>

\* Mutant of cleanup_free: only the InertialUnit is freed.
cleanup_free_leaks_table(h, d) == [h EXCEPT !.pdata = FALSE]

\* inertial_unit_cleanup, what the two free calls leave allocated.
cleanup_free(h, d) == [free(h, d.lookup_table) EXCEPT !.pdata = FALSE]

\* inertial_unit_cleanup: called once when the robot is torn down, after
\* which neither flow touches the device.
inertial_unit_cleanup ==
  /\ cpc = "idle"
  /\ spc = "idle"
  /\ lock = "free"
  /\ heap' = cleanup_free(heap, dev)
  /\ cpc' = "cleaned"
  /\ spc' = "cleaned"
  /\ UNCHANGED <<dev, lock, cop, cres, cread, r, msg, hist>>

\* ----------------------------------------------------------- specification

Next ==
  \/ \E tag \in Tags, p \in Periods : wb_inertial_unit_enable(tag, p)
  \/ wb_inertial_unit_enable_body
  \/ \E tag \in Tags : wb_inertial_unit_disable(tag)
  \/ wb_inertial_unit_disable_call_enable
  \/ \E tag \in Tags : wb_inertial_unit_get_sampling_period(tag)
  \/ wb_inertial_unit_get_sampling_period_body
  \/ \E tag \in Tags : wb_inertial_unit_get_roll_pitch_yaw(tag)
  \/ wb_inertial_unit_get_roll_pitch_yaw_body
  \/ \E tag \in Tags : wb_inertial_unit_get_lookup_table_size(tag)
  \/ wb_inertial_unit_get_lookup_table_size_body
  \/ \E tag \in Tags : wb_inertial_unit_get_lookup_table(tag)
  \/ wb_inertial_unit_get_lookup_table_body
  \/ UnlockStep
  \/ ClientLoad
  \/ \E tag \in Tags, v \in SetVectors : wbr_inertial_unit_set_values(tag, v)
  \/ wbr_inertial_unit_set_values_store
  \/ SyncBegin
  \/ inertial_unit_write_request
  \/ SyncYield
  \/ SyncResume
  \/ \E v \in DataVectors : inertial_unit_read_answer_data(v)
  \/ inertial_unit_read_answer_data_store
  \/ SyncEnd
  \/ inertial_unit_toggle_remote

Spec == Init /\ [][Next]_vars

\* The scheduling the liveness claims assume: a public function that holds
\* the lock runs to its return, and the step loop keeps running rounds
\* (it gets the lock again and again, and every round it starts it ends).
FairSpec ==
  /\ Spec
  /\ WF_vars(wb_inertial_unit_enable_body)
  /\ WF_vars(wb_inertial_unit_get_sampling_period_body)
  /\ WF_vars(wb_inertial_unit_get_roll_pitch_yaw_body)
  /\ WF_vars(wb_inertial_unit_get_lookup_table_size_body)
  /\ WF_vars(wb_inertial_unit_get_lookup_table_body)
  /\ WF_vars(UnlockStep)
  /\ SF_vars(SyncBegin)
  /\ WF_vars(inertial_unit_write_request)
  /\ SF_vars(SyncResume)
  /\ WF_vars(inertial_unit_read_answer_data_store)
  /\ SF_vars(SyncEnd)

\* The answers and the life of the device: the rounds with every kind of
\* answer message, the getters that read what the answers stored, and the
\* teardown.
AnswerNext ==
  \/ \E tag \in Tags, p \in Periods : wb_inertial_unit_enable(tag, p)
  \/ wb_inertial_unit_enable_body
  \/ \E tag \in Tags : wb_inertial_unit_get_roll_pitch_yaw(tag)
  \/ wb_inertial_unit_get_roll_pitch_yaw_body
  \/ \E tag \in Tags : wb_inertial_unit_get_lookup_table_size(tag)
  \/ wb_inertial_unit_get_lookup_table_size_body
  \/ \E tag \in Tags : wb_inertial_unit_get_lookup_table(tag)
  \/ wb_inertial_unit_get_lookup_table_body
  \/ UnlockStep
  \/ SyncBegin
  \/ inertial_unit_write_request
  \/ SyncYield
  \/ SyncResume
  \/ \E v \in DataVectors : inertial_unit_read_answer_data(v)
  \/ inertial_unit_read_answer_data_store
  \/ \E n \in TableSizes : \E values \in TableValues(n) :
       inertial_unit_read_answer_configure(n, values)
  \/ inertial_unit_read_answer_configure_malloc
  \/ inertial_unit_read_answer_configure_fill
  \/ \E tag \in OtherTags : inertial_unit_read_answer_default(tag)
  \/ SyncEnd
  \/ inertial_unit_cleanup

AnswerSpec == Init /\ [][AnswerNext]_vars

\* ------------------------------------------------------------------ claims

\* The command a flush is expected to write for period p.
Command(p) == [cmd |-> C_SET_SAMPLING_PERIOD, period |-> p]

\* C1: after one or more successful enable/disable calls since the last
\* command, the next flush writes exactly one command, carrying the period of
\* the last call; a flush with no such call and no toggle_remote since the
\* previous flush writes nothing.
C1_Coalescing ==
  [][inertial_unit_write_request =>
       /\ hist.pending > 0 => r' = Append(r, Command(hist.lastPeriod))
       /\ (hist.pending = 0 /\ ~hist.toggled) => r' = r]_vars

\* C2: a flush that finds a successful enable/disable call not yet followed
\* by a command writes one, and under fair rounds every such call is
\* eventually followed by a command.
C2_NoChangeLost ==
  /\ [][(inertial_unit_write_request /\ hist.pending > 0)
          => (Len(r') = Len(r) + 1 /\ hist'.pending = 0)]_vars
  /\ (hist.pending > 0) ~> (hist.pending = 0)

\* C2 witness: a call made between a round's request and its answer has been
\* followed by a command at the next flush.
C2_Witness ==
  /\ spc = "sent"
  /\ hist.between
  /\ hist.pending = 0
  /\ hist.flushed \in {"call", "coalesced"}
  /\ Len(r) = 1

\* C3: the period field of the command a flush has just written equals the
\* device's sampling_period, for every accepted period.
C3_PeriodFieldExact ==
  (spc = "sent" /\ r # << >>) => r[Len(r)].period = dev.sampling_period

\* A step of a public function that looks the device up or reads or writes
\* one of its fields.
ClientAccess ==
  \/ wb_inertial_unit_enable_body
  \/ \E tag \in Tags : wb_inertial_unit_disable(tag)
  \/ wb_inertial_unit_get_sampling_period_body
  \/ wb_inertial_unit_get_roll_pitch_yaw_body
  \/ wb_inertial_unit_get_lookup_table_size_body
  \/ wb_inertial_unit_get_lookup_table_body
  \/ \E tag \in Tags, v \in SetVectors : wbr_inertial_unit_set_values(tag, v)
  \/ wbr_inertial_unit_set_values_store

\* C4: every step of a public function that looks the device up or reads or
\* writes one of its fields is taken while the client holds the step lock.
C4_AccessUnderLock == [][ClientAccess => lock = "client"]_vars

\* What one single update leaves in rpy: the creation's NANs, the payload of
\* one Data message, the argument of one set_values call.
WholeVectors == {NanVector} \cup DataVectors \cup SetVectors

\* C5: the three components a client has loaded through the pointer
\* returned by get_roll_pitch_yaw all come from one single update.
C5_NoTornRead == Len(cread) = 3 => cread \in WholeVectors

\* A call of wb_inertial_unit_enable with a negative period.
NegativeEnable ==
  \E tag \in Tags, p \in Periods : p < 0 /\ wb_inertial_unit_enable(tag, p)

\* C6: wb_inertial_unit_enable with a negative period reports the error,
\* returns at once and changes nothing of the device, the lock or the
\* request; sampling_period is never negative.
C6_NegativeRejected ==
  /\ [][NegativeEnable =>
          /\ cres'.err = "negative"
          /\ cpc' = "idle"
          /\ UNCHANGED <<dev, lock, r>>]_vars
  /\ [](dev.sampling_period >= 0)

\* C6 witness: a negative period has been rejected while the device had a
\* positive period and a command pending.
C6_Witness ==
  /\ cpc = "idle"
  /\ cres.err = "negative"
  /\ dev.enable
  /\ dev.sampling_period > 0

\* A step of a public function called with a tag that is no inertial unit.
InvalidTagStep ==
  \/ \E tag \in Tags \ {DeviceTag} :
       \/ \E p \in Periods : p >= 0 /\ wb_inertial_unit_enable(tag, p)
       \/ wb_inertial_unit_disable(tag)
       \/ wb_inertial_unit_get_sampling_period(tag)
       \/ wb_inertial_unit_get_roll_pitch_yaw(tag)
       \/ wb_inertial_unit_get_lookup_table_size(tag)
       \/ wb_inertial_unit_get_lookup_table(tag)
  \/ /\ cop.fn # "none"
     /\ cop.tag # DeviceTag
     /\ \/ wb_inertial_unit_enable_body
        \/ wb_inertial_unit_get_sampling_period_body
        \/ wb_inertial_unit_get_roll_pitch_yaw_body
        \/ wb_inertial_unit_get_lookup_table_size_body
        \/ wb_inertial_unit_get_lookup_table_body
        \/ UnlockStep

\* C7: a public function called with a tag that is no inertial unit changes
\* nothing of the device (so no later flush writes a command for it) nor of
\* the request, and returns 0 / NULL with the invalid-tag error reported.
C7_InvalidTag ==
  [][InvalidTagStep =>
       /\ UNCHANGED <<dev, r>>
       /\ cpc' \in {"idle", "unlock"} =>
            cres' = [int |-> 0, ptr |-> NULL, err |-> "invalid tag"]]_vars

\* C7 witness: get_sampling_period on an unknown tag is about to return 0
\* while the device's period is positive and a command is pending.
C7_Witness ==
  /\ cpc = "unlock"
  /\ cop.fn = "get_sampling_period"
  /\ cop.tag # DeviceTag
  /\ cres.err = "invalid tag"
  /\ dev.sampling_period > 0
  /\ dev.enable

\* C8: get_sampling_period on the device returns the period of the last
\* successful enable/disable call, whatever rounds and toggle_remote calls
\* have run since.
C8_PeriodReadBack ==
  (cpc = "unlock" /\ cop.fn = "get_sampling_period" /\ cop.tag = DeviceTag
     /\ hist.lastFn # "none")
    => (cres.int = hist.lastPeriod /\ cres.err = "none")

\* C8 witness: a period above 65535 is read back after its command went out
\* and toggle_remote ran.
C8_Witness ==
  /\ cpc = "unlock"
  /\ cop.fn = "get_sampling_period"
  /\ cop.tag = DeviceTag
  /\ hist.lastFn = "enable"
  /\ hist.pending = 0
  /\ hist.toggled
  /\ cres.int >= UINT16_RANGE

\* C9: disable on the device leaves exactly what enable(tag, 0) leaves,
\* sampling_period = 0 and enable = true with the other fields untouched; the
\* next flush then writes exactly one command with period 0; disable on an
\* unknown tag returns with the error and changes nothing.
C9_DisableIsEnableZero ==
  [][/\ (wb_inertial_unit_enable_body /\ cop.tag = DeviceTag
           /\ (cop.fn = "disable" \/ cop.period = 0))
          => dev' = [dev EXCEPT !.enable = TRUE, !.sampling_period = 0]
     /\ (inertial_unit_write_request /\ hist.pending > 0 /\ hist.lastPeriod = 0)
          => r' = Append(r, Command(0))
     /\ (\E tag \in Tags \ {DeviceTag} : wb_inertial_unit_disable(tag))
          => (UNCHANGED <<dev, lock, r>> /\ cpc' = "idle"
                /\ cres'.err = "invalid tag")]_vars

\* C9 witness: a disable of an enabled device has been followed by the flush
\* that wrote its one command with period 0.
C9_Witness ==
  /\ spc = "sent"
  /\ hist.lastFn = "disable"
  /\ hist.pending = 0
  /\ hist.flushed = "call"
  /\ r = << Command(0) >>

\* C10: toggle_remote changes nothing when sampling_period is 0 and sets
\* enable, and nothing else, when it is positive; the flush that follows a
\* toggle_remote with no call in between writes exactly one command carrying
\* the current period when that is positive, and nothing when the last call
\* was a disable.
C10_ToggleRemote ==
  [][/\ inertial_unit_toggle_remote =>
          dev' = IF dev.sampling_period = 0 THEN dev
                 ELSE [dev EXCEPT !.enable = TRUE]
     /\ (inertial_unit_write_request /\ hist.toggled /\ hist.pending = 0
           /\ dev.sampling_period > 0)
          => r' = Append(r, Command(dev.sampling_period))
     /\ (inertial_unit_write_request /\ hist.toggled /\ hist.pending = 0
           /\ hist.lastFn = "disable")
          => r' = r]_vars

\* An answer whose tag byte read_answer does not know is being decoded.
UnknownAnswer == \E tag \in OtherTags : inertial_unit_read_answer_default(tag)

\* C11: an answer with an unknown tag puts the session into the fatal state
\* and changes nothing of the device or its blocks; once fatal, the session
\* stays fatal and decodes nothing more.
C11_UnknownTagFatal ==
  [][/\ UnknownAnswer => (spc' = "fatal" /\ UNCHANGED <<dev, heap>>)
     /\ spc = "fatal" => (spc' = "fatal" /\ UNCHANGED <<dev, heap, msg>>)]_vars

\* C11 witness: the session is fatal with a measurement and a table in place.
C11_Witness ==
  /\ spc = "fatal"
  /\ dev.rpy \in DataVectors
  /\ dev.lookup_table # NULL

\* Answer decoding is in the middle of a Configure message.
MidConfigure == spc \in {"configure", "fill"}

\* C12: after a Configure message with size n >= 0 has been decoded,
\* get_lookup_table_size returns n and get_lookup_table returns NULL for
\* n = 0 and else an allocated block holding exactly the message's 3 * n
\* doubles in their order, whatever table was there before.
C12_ConfigureReplaces ==
  (cpc = "unlock" /\ cop.tag = DeviceTag /\ hist.cfg.seen /\ hist.cfg.n >= 0)
    => /\ cop.fn = "get_lookup_table_size" => cres.int = hist.cfg.n
       /\ cop.fn = "get_lookup_table" =>
            IF hist.cfg.n = 0
              THEN cres.ptr = NULL
              ELSE /\ cres.ptr \in heap.live
                   /\ Len(heap.data[cres.ptr]) = 3 * hist.cfg.n
                   /\ heap.data[cres.ptr] = hist.cfg.values

\* C12 witness: get_lookup_table is about to return the table of the last
\* Configure message, which was not the first one to bring a table.
C12_Witness ==
  /\ cpc = "unlock"
  /\ cop.fn = "get_lookup_table"
  /\ cop.tag = DeviceTag
  /\ hist.cfg.n > 0
  /\ hist.cfg.values[1] = 21
  /\ cres.ptr # NULL
  /\ heap.data[cres.ptr] = hist.cfg.values

\* C13: outside the decoding of a Configure message the stored size is never
\* negative, and after a Configure message with size n <= 0 the table is
\* absent and the stored size is 0.
C13_SizeNeverNegative ==
  ~MidConfigure =>
    /\ dev.lookup_table_size >= 0
    /\ (hist.cfg.seen /\ hist.cfg.n <= 0) =>
         (dev.lookup_table = NULL /\ dev.lookup_table_size = 0)

\* C17: outside the decoding of a Configure message, and until the device is
\* torn down, a table is allocated exactly when the stored size is positive,
\* and it holds exactly 3 * size doubles.
C17_StorageIffSize ==
  (~MidConfigure /\ cpc # "cleaned") =>
    /\ (dev.lookup_table # NULL) <=> (dev.lookup_table_size > 0)
    /\ dev.lookup_table # NULL =>
         /\ dev.lookup_table \in heap.live
         /\ Len(heap.data[dev.lookup_table]) = 3 * dev.lookup_table_size

\* C17 witness: a table is in place after a Configure message.
C17_Witness ==
  /\ spc = "idle"
  /\ cpc = "idle"
  /\ hist.cfg.seen
  /\ dev.lookup_table_size > 0
  /\ dev.lookup_table \in heap.live

\* C18: free is never given a block that is not allocated; the only table
\* allocated at any time is the device's current one, so the previous one was
\* released before; after cleanup no block is left allocated.
C18_StorageOwnership ==
  /\ ~heap.bad
  /\ heap.live \subseteq {dev.lookup_table}
  /\ cpc = "cleaned" => (heap.live = {} /\ ~heap.pdata)

\* C18 witness: the device was torn down while it held a table.
C18_Witness ==
  /\ cpc = "cleaned"
  /\ dev.lookup_table # NULL
  /\ heap.live = {}

\* A step of the decoding of a Data message: one store to rpy.
DataDecodeStep ==
  \/ \E v \in DataVectors : inertial_unit_read_answer_data(v)
  \/ inertial_unit_read_answer_data_store

\* A step of wbr_inertial_unit_set_values on the inertial unit: one store to
\* rpy.
SetValuesStep ==
  \/ \E v \in SetVectors : wbr_inertial_unit_set_values(DeviceTag, v)
  \/ wbr_inertial_unit_set_values_store

\* What get_roll_pitch_yaw does while rpy is still as it was created: it
\* returns the pointer to rpy, which holds the three NANs, changes nothing
\* of the device, the blocks, the request or the round, and reports the
\* disabled device exactly when sampling_period <= 0.
GetSentinel ==
  (wb_inertial_unit_get_roll_pitch_yaw_body /\ cop.tag = DeviceTag
     /\ dev.rpy = NanVector)
    => /\ cres'.ptr = RPY
       /\ dev'.rpy = NanVector
       /\ UNCHANGED <<dev, heap, r, spc, lock>>
       /\ cres'.err = "disabled device" <=> dev.sampling_period <= 0

\* C14: rpy holds the three NANs from creation on, and no step other than
\* the decoding of a Data message changes it, so that it holds them in every
\* state before the first Data message whatever was called before;
\* get_roll_pitch_yaw in such a state returns them, changes no state and
\* only warns when sampling_period <= 0.
C14_SentinelUntilData ==
  /\ dev.rpy = NanVector
  /\ [][dev'.rpy # dev.rpy => DataDecodeStep]_vars
  /\ [][GetSentinel]_vars

\* C14 as amended: rpy holds the three NANs from creation on, and no step
\* other than the decoding of a Data message or a store of
\* wbr_inertial_unit_set_values changes it; get_roll_pitch_yaw in a state
\* before the first of these returns them, changes no state and only warns
\* when sampling_period <= 0.
C14_SentinelUntilDataOrSetValues ==
  /\ dev.rpy = NanVector
  /\ [][dev'.rpy # dev.rpy => (DataDecodeStep \/ SetValuesStep)]_vars
  /\ [][GetSentinel]_vars

\* C14 witness: get_roll_pitch_yaw is about to return the pointer to the
\* three NANs after an enable and a flush, with the warning not raised.
C14_Witness ==
  /\ cpc = "unlock"
  /\ cop.fn = "get_roll_pitch_yaw"
  /\ cop.tag = DeviceTag
  /\ cres.ptr = RPY
  /\ cres.err = "none"
  /\ dev.rpy = NanVector
  /\ hist.sent > 0

\* C15: the step that completes the decoding of a Data message leaves in rpy
\* exactly the message's three values in their order, and no step of the
\* decoding changes enable, sampling_period or the lookup table.
C15_DataRoundTrip ==
  /\ [][(inertial_unit_read_answer_data_store /\ spc = "data2")
          => dev'.rpy = msg]_vars
  /\ [][DataDecodeStep =>
          /\ dev'.enable = dev.enable
          /\ dev'.sampling_period = dev.sampling_period
          /\ dev'.lookup_table = dev.lookup_table
          /\ dev'.lookup_table_size = dev.lookup_table_size
          /\ heap' = heap]_vars

\* C16: inertial_unit_write_request with enable set appends one command and
\* clears enable, touching nothing else of the device; with enable clear it
\* appends nothing and changes nothing of the device; enable becomes true
\* only in wb_inertial_unit_enable (which disable calls) or
\* inertial_unit_toggle_remote; until the first enable or disable nothing is
\* written and enable stays false.
C16_WriteRequest ==
  /\ [][inertial_unit_write_request =>
          IF dev.enable
            THEN /\ Len(r') = Len(r) + 1
                 /\ r'[Len(r')].cmd = C_SET_SAMPLING_PERIOD
                 /\ dev' = [dev EXCEPT !.enable = FALSE]
            ELSE /\ r' = r
                 /\ dev' = dev]_vars
  /\ [][(~dev.enable /\ dev'.enable) =>
          (wb_inertial_unit_enable_body \/ inertial_unit_toggle_remote)]_vars
  /\ [](hist.lastFn = "none" => (r = << >> /\ ~dev.enable))

\* C16 witness: a flush has just written the one command of an enable call.
C16_Witness ==
  /\ spc = "sent"
  /\ Len(r) = 1
  /\ hist.flushed = "call"
  /\ ~dev.enable
  /\ dev.sampling_period > 0

\* C19: whenever enable is false and sampling_period fits 16 bits, the last
\* command written carried sampling_period (0 when none was written).
C19_EngineInSync ==
  (~dev.enable /\ dev.sampling_period < UINT16_RANGE)
    => hist.sent = dev.sampling_period

\* C19 witness: the device was enabled and then disabled, and both commands
\* have been written.
C19_Witness ==
  /\ ~dev.enable
  /\ hist.lastFn = "disable"
  /\ hist.flushed = "call"
  /\ hist.sent = 0
  /\ dev.sampling_period = 0

\* A public function returns without having taken the lock.
ReturnsAtOnce ==
  \/ NegativeEnable
  \/ \E tag \in Tags \ {DeviceTag} : wb_inertial_unit_disable(tag)

\* C20: the client holds the lock exactly between robot_mutex_lock_step and
\* robot_mutex_unlock_step of one public function, which releases it with
\* the step it returns with; a negative enable and a disable of an unknown
\* tag return without it; disable does not hold it when it calls enable; the
\* lock is free whenever no such call and no round is in progress.
C20_LockBalance ==
  /\ [](/\ lock = "client" <=> cpc \in {"locked", "unlock"}
        /\ lock = "sync" <=> spc \in {"write", "sent", "read", "data1", "data2"}
        /\ (cpc \notin {"locked", "unlock"} /\ spc \in {"idle", "await"})
             => lock = "free")
  /\ [][/\ (lock = "client" /\ lock' # "client")
             => (cpc = "unlock" /\ cpc' = "idle" /\ lock' = "free")
        /\ (lock # "client" /\ lock' = "client")
             => (lock = "free" /\ cpc \in {"idle", "disable_resolved"}
                   /\ cpc' = "locked")
        /\ ReturnsAtOnce => (lock' = lock /\ lock # "client" /\ cpc' = "idle")
       ]_vars

\* C20 witness: a getter called with an unknown tag holds the lock and is
\* about to release it.
C20_Witness ==
  /\ cpc = "unlock"
  /\ lock = "client"
  /\ cop.fn = "get_lookup_table_size"
  /\ cres.err = "invalid tag"

====
